---- MODULE Spec2Model ----
(***************************************************************************)
(* Model of the sample scripts of azure-sdk-for-js-docs:                   *)
(*   - the resource-group listing script          (src/unnamed/part_000)   *)
(*   - the broker script with a top-level handler (broker.ts 25-76)        *)
(*   - the broker script wrapped in main()        (broker.ts 77-157)       *)
(*   - the Key Vault setup script, first version  (part_001 108-320)       *)
(*   - the Key Vault setup script, second version (part_001 321-564)       *)
(* One run of one program is one behaviour: Init picks the program and its *)
(* environment, the actions are the program's steps.  Strings are modelled *)
(* as sequences of tokens so that String.includes is a real search.        *)
(***************************************************************************)
EXTENDS Integers, Sequences, FiniteSets, TLC

VARIABLES
    prog,              \* which script runs
    pc,                \* position in the script
    env,               \* process.env.AZURE_KEY_VAULT_URL
    subId,             \* process.env.AZURE_SUBSCRIPTION_ID
    vaultUri,          \* const vaultUri
    err,               \* the value caught by the catch block (NoError if none)
    outcome,           \* outcome code and message chosen by the script
    ret,               \* the value main() resolved with (-1: not settled)
    exitStatus,        \* exit status of the process (-1: still running)
    exits,             \* number of process exits
    uncaught,          \* an exception left the process unhandled
    clientConstructed, \* new SecretClient(...) / new ResourceManagementClient(...) ran
    getSecretCalled,   \* client.getSecret(...) was called
    printed,           \* diagnostic lines written so far (set of tags)
    i,                 \* let i (listing script)
    stdinEof,          \* standard input is at end of file when the prompt reads it
    REPLY,             \* $REPLY of the confirmation prompt
    calls,             \* resource-creating az calls, in order
    RBAC_SUCCESS,      \* "unset" | "true" | "false"
    RETRY_COUNT,       \* $RETRY_COUNT
    RETRY_DELAY,       \* $RETRY_DELAY
    attempts,          \* number of `az keyvault secret set` invocations
    slept,             \* delays slept by the retry loop, in order
    secretCreated,     \* an `az keyvault secret set` succeeded
    exhaustWarnings,   \* times the exhaustion warning was printed
    configWritten      \* keyvault-config.txt was written

tsVars == <<env, subId, vaultUri, err, outcome, ret, clientConstructed, getSecretCalled, i>>
shVars == <<REPLY, calls, RBAC_SUCCESS, RETRY_COUNT, RETRY_DELAY, attempts, slept,
            secretCreated, exhaustWarnings, configWritten>>
vars == <<prog, pc, exitStatus, exits, uncaught, printed, stdinEof, tsVars, shVars>>

----------------------------------------------------------------------------
(* Bounds of the model *)

\* longest AZURE_KEY_VAULT_URL value, in tokens
MaxUrlLen == 3
\* number of status codes other than 0, 401, 403, 404 that a failure may carry
MaxOtherStatus == 2
\* most resource groups the listing yields
MaxGroups == 3

(* Program constants *)

\* MAX_RETRIES=12
MAX_RETRIES == 12
\* RETRY_DELAY=10
BASE_DELAY == 10
\* RETRY_DELAY + 5
DELAY_INCREMENT == 5
\* capped at 30s
DELAY_CAP == 30

----------------------------------------------------------------------------
(* Strings as token sequences *)

Placeholder == "<your-key-vault-name>"
InvalidUrlText == "Invalid URL"

UrlTokens == {"https://", Placeholder, "myvault", ".vault.azure.net/"}
DefaultVaultUri == <<"https://", Placeholder, ".vault.azure.net/">>

SeqsUpTo(S, n) == UNION {[1..k -> S] : k \in 0..n}

\* String.prototype.includes: sub occurs in s as a contiguous run
Includes(s, sub) ==
    \E k \in 0..(Len(s) - Len(sub)) :
        \A j \in 1..Len(sub) : s[k + j] = sub[j]

\* an environment variable: unset (undefined) or a string
Unset == [set |-> FALSE, val |-> <<>>]
EnvStr(s) == [set |-> TRUE, val |-> s]
EnvValues == {Unset} \cup {EnvStr(s) : s \in SeqsUpTo(UrlTokens, MaxUrlLen)}
SubIdValues == {Unset, EnvStr(<<>>), EnvStr(<<"0000-sub">>)}

\* JavaScript truthiness of an environment value: undefined and "" are falsy
Falsy(v) == ~v.set \/ v.val = <<>>

\* process.env.AZURE_KEY_VAULT_URL! || "https://<your-key-vault-name>.vault.azure.net/"
VaultUri(v) == IF Falsy(v) THEN DefaultVaultUri ELSE v.val

\* vaultUri.includes("<your-key-vault-name>")
IsPlaceholder(uri) == Includes(uri, <<Placeholder>>)

----------------------------------------------------------------------------
(* Thrown values *)

OtherStatus == 500..(499 + MaxOtherStatus)
StatusCodes == {0, 401, 403, 404} \cup OtherStatus
ErrorNames == {"RestError", "Error"}
Messages == {<<"request", "failed">>, <<InvalidUrlText>>, <<"TypeError:", InvalidUrlText>>}

\* instances of Error: AuthenticationError or not, any name, with or without a
\* statusCode property, any message
ErrorObjects ==
    { [isError |-> TRUE, isAuth |-> a, name |-> n, hasStatus |-> h, statusCode |-> c, message |-> m] :
        a \in BOOLEAN, n \in ErrorNames, h \in BOOLEAN, c \in StatusCodes, m \in Messages }
\* a thrown value that is not an Error (a string); message holds String(error)
NonError == [isError |-> FALSE, isAuth |-> FALSE, name |-> "", hasStatus |-> FALSE,
             statusCode |-> 0, message |-> <<"oops">>]
Thrown == {e \in ErrorObjects : e.hasStatus \/ e.statusCode = 0} \cup {NonError}
NoError == [isError |-> FALSE, isAuth |-> FALSE, name |-> "none", hasStatus |-> FALSE,
            statusCode |-> 0, message |-> <<>>]

\* a diagnostic line: which text it is, the status code and the failure text it embeds
Msg(kind, code, text) == [kind |-> kind, code |-> code, text |-> text]
NoOutcome == [code |-> -1, msg |-> Msg("none", 0, <<>>)]

\* if (restError.statusCode): undefined and 0 are falsy
StatusTruthy(e) == e.hasStatus /\ e.statusCode # 0

\* the conditional expression choosing the service-error message
ServiceMessage(e) ==
    IF e.statusCode = 401 THEN Msg("auth-permissions", 0, <<>>)
    ELSE IF e.statusCode = 403 THEN Msg("access-denied", 0, <<>>)
    ELSE IF e.statusCode = 404 THEN Msg("not-found", 0, <<>>)
    ELSE Msg("keyvault-error", e.statusCode, e.message)

\* lines 73-75 / 145-147: the fall-through at the end of the catch block
Unexpected(e) == [code |-> 1, msg |-> Msg("unexpected", 0, e.message)]

\* a ladder that tests the RestError status before the AuthenticationError
ClassifyStatusFirst(e) ==
    IF e.isError /\ e.name = "RestError" /\ StatusTruthy(e)
        THEN [code |-> 3, msg |-> ServiceMessage(e)]
    ELSE IF e.isAuth
        THEN [code |-> 2, msg |-> Msg("auth-failed", 0, e.message)]
    ELSE IF e.isError /\ Includes(e.message, <<InvalidUrlText>>)
        THEN [code |-> 4, msg |-> Msg("invalid-url", 0, <<>>)]
    ELSE Unexpected(e)

\* the catch block's if / else-if ladder
Classify(e) ==
    IF e.isAuth
        THEN [code |-> 2, msg |-> Msg("auth-failed", 0, e.message)]
    ELSE IF e.isError /\ e.name = "RestError"
        THEN IF StatusTruthy(e)
                THEN [code |-> 3, msg |-> ServiceMessage(e)]
                ELSE Unexpected(e)
    ELSE IF e.isError /\ Includes(e.message, <<InvalidUrlText>>)
        THEN [code |-> 4, msg |-> Msg("invalid-url", 0, <<>>)]
    ELSE Unexpected(e)

----------------------------------------------------------------------------
Programs == {"listing", "brokerTop", "brokerMain", "setup1", "setup2"}
Brokers == {"brokerTop", "brokerMain"}
Setups == {"setup1", "setup2"}

Init ==
    /\ prog \in Programs
    /\ pc = "start"
    /\ env \in (IF prog \in Brokers THEN EnvValues ELSE {Unset})
    /\ subId \in (IF prog = "listing" THEN SubIdValues ELSE {Unset})
    /\ vaultUri = <<>>
    /\ err = NoError
    /\ outcome = NoOutcome
    /\ ret = -1
    /\ exitStatus = -1
    /\ exits = 0
    /\ uncaught = FALSE
    /\ clientConstructed = FALSE
    /\ getSecretCalled = FALSE
    /\ printed = {}
    /\ i = 0
    /\ stdinEof \in (IF prog \in Setups THEN BOOLEAN ELSE {FALSE})
    /\ REPLY = ""
    /\ calls = <<>>
    /\ RBAC_SUCCESS = "unset"
    /\ RETRY_COUNT = 0
    /\ RETRY_DELAY = 0
    /\ attempts = 0
    /\ slept = <<>>
    /\ secretCreated = FALSE
    /\ exhaustWarnings = 0
    /\ configWritten = FALSE

\* process.exit(code): the process ends here, nothing after it runs
ProcessExit(code) ==
    /\ pc' = "exited"
    /\ exitStatus' = code
    /\ exits' = exits + 1
    /\ UNCHANGED uncaught

\* the process ends without process.exit: by an uncaught exception (status 1)
\* or by running off the end of the script (status 0)
ProcessEnds(code, byException) ==
    /\ pc' = "exited"
    /\ exitStatus' = code
    /\ exits' = exits + 1
    /\ uncaught' = byException

----------------------------------------------------------------------------
(* Broker script, top-level handler: broker.ts 25-76 *)

\* catch (error) { ... }: classify, print, process.exit(code)
TopCatch(e) ==
    /\ err' = e
    /\ outcome' = Classify(e)
    /\ printed' = printed \cup {Classify(e).msg.kind}
    /\ ProcessExit(Classify(e).code)

\* useIdentityPlugin(...); const credential = new InteractiveBrowserCredential(...):
\* module top level, before the try; if it throws nothing catches it and Node
\* ends the process with status 1
TopCredential ==
    /\ prog = "brokerTop" /\ pc = "start"
    /\ \/ /\ pc' = "try"
          /\ UNCHANGED <<exitStatus, exits, uncaught>>
       \/ ProcessEnds(1, TRUE)
    /\ UNCHANGED <<prog, stdinEof, printed, tsVars, shVars>>

TopReadConfig ==
    /\ prog = "brokerTop" /\ pc = "try"
    /\ vaultUri' = VaultUri(env)
    /\ IF IsPlaceholder(VaultUri(env))
          THEN /\ outcome' = [code |-> 4, msg |-> Msg("set-env", 0, <<>>)]
               /\ printed' = printed \cup {"using-url", "set-env"}
               /\ ProcessExit(4)
          ELSE /\ outcome' = outcome
               /\ printed' = printed \cup {"using-url"}
               /\ pc' = "construct"
               /\ UNCHANGED <<exitStatus, exits, uncaught>>
    /\ UNCHANGED <<prog, stdinEof, env, subId, err, ret, clientConstructed, getSecretCalled, i, shVars>>

\* new SecretClient(vaultUri, credential): returns, or throws into the catch
TopConstructClient ==
    /\ prog = "brokerTop" /\ pc = "construct"
    /\ \/ /\ clientConstructed' = TRUE
          /\ printed' = printed \cup {"retrieving"}
          /\ pc' = "getSecret"
          /\ UNCHANGED <<err, outcome, exitStatus, exits, uncaught>>
       \/ \E e \in Thrown :
            /\ TopCatch(e)
            /\ UNCHANGED clientConstructed
    /\ UNCHANGED <<prog, stdinEof, env, subId, vaultUri, ret, getSecretCalled, i, shVars>>

\* await client.getSecret("MySecret"): resolves, or rejects into the catch
TopGetSecret ==
    /\ prog = "brokerTop" /\ pc = "getSecret"
    /\ getSecretCalled' = TRUE
    /\ \/ /\ outcome' = [code |-> 0, msg |-> Msg("retrieved", 0, <<>>)]
          /\ printed' = printed \cup {"retrieved", "done"}
          /\ ProcessExit(0)
          /\ UNCHANGED err
       \/ \E e \in Thrown : TopCatch(e)
    /\ UNCHANGED <<prog, stdinEof, env, subId, vaultUri, ret, clientConstructed, i, shVars>>

----------------------------------------------------------------------------
(* Broker script wrapped in main(): broker.ts 77-157 *)

\* catch (error) { ... }: classify, print, return code
MainCatch(e) ==
    /\ err' = e
    /\ outcome' = Classify(e)
    /\ printed' = printed \cup {Classify(e).msg.kind}
    /\ ret' = Classify(e).code
    /\ pc' = "settled"

\* useIdentityPlugin(nativeBrokerPlugin): module top level, before main() is
\* called and outside its try; if it throws nothing catches it, main() never
\* runs and Node ends the process with status 1
MainPlugin ==
    /\ prog = "brokerMain" /\ pc = "start"
    /\ \/ /\ pc' = "main"
          /\ UNCHANGED <<exitStatus, exits, uncaught>>
       \/ ProcessEnds(1, TRUE)
    /\ UNCHANGED <<prog, stdinEof, printed, tsVars, shVars>>

\* try { const credential = new InteractiveBrowserCredential({ tenantId:
\* process.env.AZURE_TENANT_ID!, ... }): the constructor returns, or throws into
\* the catch before the URL is read; then vaultUri and the placeholder check
MainReadConfig ==
    /\ prog = "brokerMain" /\ pc = "main"
    /\ \/ /\ vaultUri' = VaultUri(env)
          /\ IF IsPlaceholder(VaultUri(env))
                THEN /\ outcome' = [code |-> 4, msg |-> Msg("set-env", 0, <<>>)]
                     /\ printed' = printed \cup {"using-url", "set-env"}
                     /\ ret' = 4
                     /\ pc' = "settled"
                ELSE /\ outcome' = outcome
                     /\ printed' = printed \cup {"using-url"}
                     /\ ret' = ret
                     /\ pc' = "construct"
          /\ UNCHANGED err
       \/ \E e \in Thrown :
            /\ MainCatch(e)
            /\ UNCHANGED vaultUri
    /\ UNCHANGED <<prog, stdinEof, env, subId, clientConstructed, getSecretCalled, i,
                   exitStatus, exits, uncaught, shVars>>

MainConstructClient ==
    /\ prog = "brokerMain" /\ pc = "construct"
    /\ \/ /\ clientConstructed' = TRUE
          /\ printed' = printed \cup {"retrieving"}
          /\ pc' = "getSecret"
          /\ UNCHANGED <<err, outcome, ret>>
       \/ \E e \in Thrown :
            /\ MainCatch(e)
            /\ UNCHANGED clientConstructed
    /\ UNCHANGED <<prog, stdinEof, env, subId, vaultUri, getSecretCalled, i,
                   exitStatus, exits, uncaught, shVars>>

MainGetSecret ==
    /\ prog = "brokerMain" /\ pc = "getSecret"
    /\ getSecretCalled' = TRUE
    /\ \/ /\ outcome' = [code |-> 0, msg |-> Msg("retrieved", 0, <<>>)]
          /\ printed' = printed \cup {"retrieved"}
          /\ ret' = 0
          /\ pc' = "settled"
          /\ UNCHANGED err
       \/ \E e \in Thrown : MainCatch(e)
    /\ UNCHANGED <<prog, stdinEof, env, subId, vaultUri, clientConstructed, i,
                   exitStatus, exits, uncaught, shVars>>

\* main().then(() => { console.log("Done"); process.exit(0); })
\* the callback takes no argument: the value main() resolved with is dropped
MainThen ==
    /\ prog = "brokerMain" /\ pc = "settled"
    /\ printed' = printed \cup {"done"}
    /\ ProcessExit(0)
    /\ UNCHANGED <<prog, stdinEof, tsVars, shVars>>

----------------------------------------------------------------------------
(* Resource-group listing script: part_000 *)

\* if (!subscriptionId) throw new Error(...): thrown at module top level, outside
\* any handler, so Node reports it as uncaught and exits with status 1
ListCheckSubscription ==
    /\ prog = "listing" /\ pc = "start"
    /\ IF Falsy(subId)
          THEN /\ ProcessEnds(1, TRUE)
               /\ UNCHANGED printed
          ELSE /\ printed' = printed \cup {"using-subscription"}
               /\ pc' = "main"
               /\ UNCHANGED <<exitStatus, exits, uncaught>>
    /\ UNCHANGED <<prog, stdinEof, tsVars, shVars>>

\* new DefaultAzureCredential(); new ResourceManagementClient(...): return, or
\* throw and reject main()
ListConstruct ==
    /\ prog = "listing" /\ pc = "main"
    /\ \/ /\ clientConstructed' = TRUE
          /\ pc' = "iterate"
          /\ UNCHANGED err
       \/ \E e \in Thrown :
            /\ err' = e
            /\ pc' = "rejected"
            /\ UNCHANGED clientConstructed
    /\ UNCHANGED <<prog, stdinEof, env, subId, vaultUri, outcome, ret, getSecretCalled, i,
                   exitStatus, exits, uncaught, printed, shVars>>

\* for await (const item of client.resourceGroups.list()): one item
ListNextItem ==
    /\ prog = "listing" /\ pc = "iterate"
    /\ i < MaxGroups
    /\ i' = i + 1
    /\ printed' = printed \cup {"item"}
    /\ UNCHANGED <<prog, stdinEof, pc, env, subId, vaultUri, err, outcome, ret, clientConstructed,
                   getSecretCalled, exitStatus, exits, uncaught, shVars>>

\* the iterator rejects: main() rejects
ListThrows ==
    /\ prog = "listing" /\ pc = "iterate"
    /\ \E e \in Thrown : err' = e
    /\ pc' = "rejected"
    /\ UNCHANGED <<prog, stdinEof, env, subId, vaultUri, outcome, ret, clientConstructed,
                   getSecretCalled, i, exitStatus, exits, uncaught, printed, shVars>>

\* the iterator is done: console.log(`Found ...`), main() resolves, the script
\* runs off its end and the process ends with status 0
ListEnd ==
    /\ prog = "listing" /\ pc = "iterate"
    /\ printed' = printed \cup {"found"}
    /\ ProcessEnds(0, FALSE)
    /\ UNCHANGED <<prog, stdinEof, tsVars, shVars>>

\* main().catch((err) => { console.error(err); }): sets no exit code, the
\* process then ends with status 0
ListCatch ==
    /\ prog = "listing" /\ pc = "rejected"
    /\ printed' = printed \cup {"error"}
    /\ ProcessEnds(0, FALSE)
    /\ UNCHANGED <<prog, stdinEof, tsVars, shVars>>

----------------------------------------------------------------------------
(* Setup scripts: part_001 108-320 (first version), 321-564 (second) *)

\* exit statuses of a failed az command
AzFailure == {1, 2, 3}
\* what `read -n 1 -r` can leave in $REPLY
Replies == {"y", "Y", "n", "N", "", "x"}

\* [[ ! $REPLY =~ ^[Nn]$ ]]: everything but an explicit no confirms
ConfirmedUnlessNo(r) == r \notin {"n", "N"}
\* [[ $REPLY =~ ^[Yy]$ ]]
Confirmed(r) == r \in {"y", "Y"}

\* RETRY_DELAY <= 30 ? RETRY_DELAY + 5 : 30
NextDelayInclusive(d) == IF d <= DELAY_CAP THEN d + DELAY_INCREMENT ELSE DELAY_CAP
\* RETRY_DELAY * 2, capped: the exponential back-off the comment speaks of
NextDelayDoubling(d) == IF d * 2 < DELAY_CAP THEN d * 2 ELSE DELAY_CAP
\* RETRY_DELAY=$((RETRY_DELAY < 30 ? RETRY_DELAY + 5 : 30))
NextDelay(d) == IF d < DELAY_CAP THEN d + DELAY_INCREMENT ELSE DELAY_CAP

\* [ $RETRY_COUNT -le $MAX_RETRIES ]
WhileCondInclusive(c) == c <= MAX_RETRIES
\* while [ $RETRY_COUNT -lt $MAX_RETRIES ]
WhileCond(c) == c < MAX_RETRIES

\* if [ $RETRY_COUNT -ge 0 ]: sleeps before the first attempt too
SleepsBeforeAlways(c) == c >= 0
\* if [ $RETRY_COUNT -gt 0 ]
SleepsBefore(c) == c > 0

\* set -e: a simple command that fails ends the script with its status
Abort(status) == ProcessExit(status)

\* if ! az account show &> /dev/null; then ... exit 1
LoginCheck ==
    /\ prog \in Setups /\ pc = "start"
    /\ \/ /\ pc' = "account"
          /\ printed' = printed \cup {"checking-login"}
          /\ UNCHANGED <<exitStatus, exits, uncaught>>
       \/ /\ printed' = printed \cup {"checking-login", "not-logged-in"}
          /\ ProcessExit(1)
    /\ UNCHANGED <<prog, stdinEof, tsVars, shVars>>

\* SUBSCRIPTION_ID=$(az account show ...) ... CURRENT_USER_UPN=$(...): under
\* set -e a failing assignment ends the script; the second version also probes
\* the role definitions, warning only
AccountInfo ==
    /\ prog \in Setups /\ pc = "account"
    /\ \/ /\ pc' = "prompt"
          /\ \/ printed' = printed \cup {"authenticated"}
             \/ /\ prog = "setup2"
                /\ printed' = printed \cup {"authenticated", "no-role-definitions"}
          /\ UNCHANGED <<exitStatus, exits, uncaught>>
       \/ \E st \in AzFailure :
            /\ Abort(st)
            /\ UNCHANGED printed
    /\ UNCHANGED <<prog, stdinEof, tsVars, shVars>>

\* read -p "Do you want to continue? (y/N): " -n 1 -r: at end of input read
\* returns 1 with REPLY empty and, being a simple command under set -e, ends
\* the script there; otherwise the reply is tested
Prompt ==
    /\ prog \in Setups /\ pc = "prompt"
    /\ IF stdinEof
          THEN /\ REPLY' = ""
               /\ Abort(1)
               /\ UNCHANGED printed
          ELSE \E r \in Replies :
                 /\ REPLY' = r
                 /\ IF Confirmed(r)
                       THEN /\ pc' = "group"
                            /\ UNCHANGED <<exitStatus, exits, uncaught, printed>>
                       ELSE /\ printed' = printed \cup {"cancelled"}
                            /\ ProcessExit(0)
    /\ UNCHANGED <<prog, stdinEof, tsVars, calls, RBAC_SUCCESS, RETRY_COUNT, RETRY_DELAY, attempts,
                   slept, secretCreated, exhaustWarnings, configWritten>>

\* az group create: under set -e a failure ends the script at the command, the
\* `if [ $? -eq 0 ] ... else` that follows only ever sees 0
GroupCreate ==
    /\ prog \in Setups /\ pc = "group"
    /\ calls' = Append(calls, "group")
    /\ \/ /\ printed' = printed \cup {"group-created"}
          /\ pc' = "keyvault"
          /\ UNCHANGED <<exitStatus, exits, uncaught>>
       \/ \E st \in AzFailure :
            /\ Abort(st)
            /\ UNCHANGED printed
    /\ UNCHANGED <<prog, stdinEof, tsVars, REPLY, RBAC_SUCCESS, RETRY_COUNT, RETRY_DELAY, attempts,
                   slept, secretCreated, exhaustWarnings, configWritten>>

\* az keyvault create
KeyVaultCreate ==
    /\ prog \in Setups /\ pc = "keyvault"
    /\ calls' = Append(calls, "keyvault")
    /\ \/ /\ printed' = printed \cup {"keyvault-created"}
          /\ pc' = "kvshow"
          /\ UNCHANGED <<exitStatus, exits, uncaught>>
       \/ \E st \in AzFailure :
            /\ Abort(st)
            /\ UNCHANGED printed
    /\ UNCHANGED <<prog, stdinEof, tsVars, REPLY, RBAC_SUCCESS, RETRY_COUNT, RETRY_DELAY, attempts,
                   slept, secretCreated, exhaustWarnings, configWritten>>

\* sleep 10; (second version: az account set;) KEY_VAULT_ID=$(az keyvault show ...)
KeyVaultShow ==
    /\ prog \in Setups /\ pc = "kvshow"
    /\ \/ /\ pc' = "role"
          /\ printed' = printed \cup {"waiting-provisioned"}
          /\ UNCHANGED <<exitStatus, exits, uncaught>>
       \/ \E st \in AzFailure :
            /\ Abort(st)
            /\ printed' = printed \cup {"waiting-provisioned"}
    /\ UNCHANGED <<prog, stdinEof, tsVars, shVars>>

\* first version: az role assignment create as a simple command under set -e;
\* a failure ends the script there, the else branch of the $? test is never run
RoleAssign1 ==
    /\ prog = "setup1" /\ pc = "role"
    /\ calls' = Append(calls, "role")
    /\ \/ /\ printed' = printed \cup {"role-assigned"}
          /\ pc' = "retryinit"
          /\ UNCHANGED <<exitStatus, exits, uncaught>>
       \/ \E st \in AzFailure :
            /\ Abort(st)
            /\ UNCHANGED printed
    /\ UNCHANGED <<prog, stdinEof, tsVars, REPLY, RBAC_SUCCESS, RETRY_COUNT, RETRY_DELAY, attempts,
                   slept, secretCreated, exhaustWarnings, configWritten>>

\* second version: if az role assignment create ...; then RBAC_SUCCESS=true
\* else ... RBAC_SUCCESS=false
RoleAssign2 ==
    /\ prog = "setup2" /\ pc = "role"
    /\ calls' = Append(calls, "role")
    /\ \/ /\ printed' = printed \cup {"role-assigned"}
          /\ RBAC_SUCCESS' = "true"
       \/ /\ printed' = printed \cup {"role-failed"}
          /\ RBAC_SUCCESS' = "false"
    /\ pc' = "gate"
    /\ UNCHANGED <<prog, stdinEof, tsVars, REPLY, RETRY_COUNT, RETRY_DELAY, attempts, slept,
                   secretCreated, exhaustWarnings, configWritten, exitStatus, exits, uncaught>>

\* first version: MAX_RETRIES=12; RETRY_COUNT=0; RETRY_DELAY=10
RetryInit1 ==
    /\ prog = "setup1" /\ pc = "retryinit"
    /\ RETRY_COUNT' = 0
    /\ RETRY_DELAY' = BASE_DELAY
    /\ printed' = printed \cup {"creating-secret"}
    /\ pc' = "loop"
    /\ UNCHANGED <<prog, stdinEof, tsVars, REPLY, calls, RBAC_SUCCESS, attempts, slept,
                   secretCreated, exhaustWarnings, configWritten, exitStatus, exits, uncaught>>

\* a gate that tests nothing: the loop is entered whatever RBAC_SUCCESS is
RbacGate2Ungated ==
    /\ prog = "setup2" /\ pc = "gate"
    /\ RETRY_COUNT' = 0
    /\ RETRY_DELAY' = BASE_DELAY
    /\ printed' = printed \cup {"creating-secret"}
    /\ pc' = "loop"
    /\ UNCHANGED <<prog, stdinEof, tsVars, REPLY, calls, RBAC_SUCCESS, attempts, slept,
                   secretCreated, exhaustWarnings, configWritten, exitStatus, exits, uncaught>>

\* second version: if [ "$RBAC_SUCCESS" = true ]; then <init, loop> else <skip warning>
RbacGate2 ==
    /\ prog = "setup2" /\ pc = "gate"
    /\ IF RBAC_SUCCESS = "true"
          THEN /\ RETRY_COUNT' = 0
               /\ RETRY_DELAY' = BASE_DELAY
               /\ printed' = printed \cup {"creating-secret"}
               /\ pc' = "loop"
          ELSE /\ printed' = printed \cup {"skipping-secret"}
               /\ pc' = "summary"
               /\ UNCHANGED <<RETRY_COUNT, RETRY_DELAY>>
    /\ UNCHANGED <<prog, stdinEof, tsVars, REPLY, calls, RBAC_SUCCESS, attempts, slept,
                   secretCreated, exhaustWarnings, configWritten, exitStatus, exits, uncaught>>

\* the head of the while loop and the sleep that opens every iteration but the first
LoopHead ==
    /\ prog \in Setups /\ pc = "loop"
    /\ IF WhileCond(RETRY_COUNT)
          THEN /\ pc' = "attempt"
               /\ IF SleepsBefore(RETRY_COUNT)
                     THEN /\ slept' = Append(slept, RETRY_DELAY)
                          /\ RETRY_DELAY' = NextDelay(RETRY_DELAY)
                          /\ printed' = printed \cup {"waiting-rbac"}
                     ELSE UNCHANGED <<slept, RETRY_DELAY, printed>>
          ELSE /\ pc' = "summary"
               /\ UNCHANGED <<slept, RETRY_DELAY, printed>>
    /\ UNCHANGED <<prog, stdinEof, tsVars, REPLY, calls, RBAC_SUCCESS, RETRY_COUNT, attempts,
                   secretCreated, exhaustWarnings, configWritten, exitStatus, exits, uncaught>>

\* a retry that wraps the role assignment too: every failed attempt re-issues
\* az role assignment create before the next one
SecretSetReassignsRole ==
    /\ prog \in Setups /\ pc = "attempt"
    /\ attempts' = attempts + 1
    /\ \/ /\ secretCreated' = TRUE
          /\ calls' = Append(calls, "secret")
          /\ printed' = printed \cup {"secret-created"}
          /\ pc' = "summary"
          /\ UNCHANGED <<RETRY_COUNT, exhaustWarnings>>
       \/ /\ RETRY_COUNT' = RETRY_COUNT + 1
          /\ calls' = Append(Append(calls, "secret"), "role")
          /\ IF RETRY_COUNT + 1 = MAX_RETRIES
                THEN /\ exhaustWarnings' = exhaustWarnings + 1
                     /\ printed' = printed \cup {"exhausted"}
                ELSE UNCHANGED <<exhaustWarnings, printed>>
          /\ pc' = "loop"
          /\ UNCHANGED secretCreated
    /\ UNCHANGED <<prog, stdinEof, tsVars, REPLY, RBAC_SUCCESS, RETRY_DELAY, slept, configWritten,
                   exitStatus, exits, uncaught>>

\* if az keyvault secret set ...; then break; else RETRY_COUNT++ and, at
\* MAX_RETRIES, the exhaustion warning
SecretSet ==
    /\ prog \in Setups /\ pc = "attempt"
    /\ calls' = Append(calls, "secret")
    /\ attempts' = attempts + 1
    /\ \/ /\ secretCreated' = TRUE
          /\ printed' = printed \cup {"secret-created"}
          /\ pc' = "summary"
          /\ UNCHANGED <<RETRY_COUNT, exhaustWarnings>>
       \/ /\ RETRY_COUNT' = RETRY_COUNT + 1
          /\ IF RETRY_COUNT + 1 = MAX_RETRIES
                THEN /\ exhaustWarnings' = exhaustWarnings + 1
                     /\ printed' = printed \cup {"exhausted"}
                ELSE UNCHANGED <<exhaustWarnings, printed>>
          /\ pc' = "loop"
          /\ UNCHANGED secretCreated
    /\ UNCHANGED <<prog, stdinEof, tsVars, REPLY, RBAC_SUCCESS, RETRY_DELAY, slept, configWritten,
                   exitStatus, exits, uncaught>>

\* print_success "Setup completed successfully!" and the resource summary
Summary ==
    /\ prog \in Setups /\ pc = "summary"
    /\ printed' = printed \cup {"summary"}
    /\ pc' = "config"
    /\ UNCHANGED <<prog, stdinEof, tsVars, shVars, exitStatus, exits, uncaught>>

\* cat > "${CONFIG_FILE}" << EOF ...; the last command returns 0 and the
\* script ends with status 0
WriteConfig ==
    /\ prog \in Setups /\ pc = "config"
    /\ configWritten' = TRUE
    /\ printed' = printed \cup {"config-saved"}
    /\ ProcessEnds(0, FALSE)
    /\ UNCHANGED <<prog, stdinEof, tsVars, REPLY, calls, RBAC_SUCCESS, RETRY_COUNT, RETRY_DELAY,
                   attempts, slept, secretCreated, exhaustWarnings>>

----------------------------------------------------------------------------
Next ==
    \/ TopCredential \/ TopReadConfig \/ TopConstructClient \/ TopGetSecret
    \/ MainPlugin \/ MainReadConfig \/ MainConstructClient \/ MainGetSecret \/ MainThen
    \/ ListCheckSubscription \/ ListConstruct \/ ListNextItem \/ ListThrows
    \/ ListEnd \/ ListCatch
    \/ LoginCheck \/ AccountInfo \/ Prompt \/ GroupCreate \/ KeyVaultCreate
    \/ KeyVaultShow \/ RoleAssign1 \/ RoleAssign2 \/ RetryInit1 \/ RbacGate2
    \/ LoopHead \/ SecretSet \/ Summary \/ WriteConfig

Spec == Init /\ [][Next]_vars

\* every script is a single sequential thread that runs until it ends
FairSpec == Spec /\ WF_vars(Next)

----------------------------------------------------------------------------
(* Properties *)

Exited == pc = "exited"

\* the failure categories in the order the specification gives them:
\* authentication failure, numeric status code, malformed endpoint, other
LadderCode(e) ==
    IF e.isAuth THEN 2
    ELSE IF e.hasStatus THEN 3
    ELSE IF Includes(e.message, <<InvalidUrlText>>) THEN 4
    ELSE 1

\* the exit status the mapping assigns to a finished run of a broker script
MappedStatus ==
    IF IsPlaceholder(vaultUri) THEN 4
    ELSE IF err = NoError THEN 0
    ELSE LadderCode(err)

\* C1: every run of the broker script with the top-level handler ends with
\* exactly one process exit whose status follows the mapping 0 success,
\* 2 authentication, 3 service request failure, 4 invalid configuration
\* (placeholder or "Invalid URL"), 1 anything else.
C1_ExitFollowsMapping ==
    (prog = "brokerTop" /\ Exited /\ ~uncaught) =>
        /\ exits = 1
        /\ exitStatus \in 0..4
        /\ exitStatus = MappedStatus

\* C2: the main() variant exits with the outcome code main() computed, and
\* prints "Done" and exits 0 only when main() returned 0.
C2_ExitEqualsReturn ==
    (prog = "brokerMain" /\ Exited /\ ~uncaught) =>
        /\ exitStatus = ret
        /\ ("done" \in printed => ret = 0)

\* C3: an AuthenticationError is classified AuthenticationFailed (2) whatever
\* status code, name or message it carries.
C3_AuthenticationWins ==
    (prog \in Brokers /\ err.isAuth) =>
        /\ outcome.code = 2
        /\ outcome.msg = Msg("auth-failed", 0, err.message)
        /\ (prog = "brokerTop" => exitStatus = 2)
        /\ (prog = "brokerMain" => ret = 2)

C3_Witness ==
    /\ prog \in Brokers
    /\ err.isAuth /\ err.name = "RestError"
    /\ err.hasStatus /\ err.statusCode = 401
    /\ Includes(err.message, <<InvalidUrlText>>)
    /\ outcome.code = 2

\* the message the claim assigns to a status code
StatusMessageKind(c) ==
    CASE c = 401 -> "auth-permissions"
      [] c = 403 -> "access-denied"
      [] c = 404 -> "not-found"
      [] OTHER -> "keyvault-error"

\* C4: a failure that is not an authentication failure and carries a numeric
\* status code is classified ServiceRequestFailed (3), with the 401 / 403 /
\* 404 / generic message, for every status code and whatever its name.
C4_StatusMeansServiceFailure ==
    (prog \in Brokers /\ err.isError /\ ~err.isAuth /\ err.hasStatus) =>
        /\ outcome.code = 3
        /\ outcome.msg.kind = StatusMessageKind(err.statusCode)
        /\ (outcome.msg.kind = "keyvault-error" => outcome.msg.code = err.statusCode)

\* C5: a failure that is not an authentication failure, carries no status
\* code and whose message contains "Invalid URL" is classified
\* InvalidConfiguration (4), whatever its name.
C5_InvalidUrlMeansConfiguration ==
    (/\ prog \in Brokers
     /\ err.isError /\ ~err.isAuth /\ ~err.hasStatus
     /\ Includes(err.message, <<InvalidUrlText>>)) =>
        outcome.code = 4

\* AZURE_KEY_VAULT_URL is unset, empty or contains the placeholder
EnvIsPlaceholder == ~env.set \/ env.val = <<>> \/ Includes(env.val, <<Placeholder>>)

\* C6: with AZURE_KEY_VAULT_URL unset, empty or containing the placeholder the
\* broker script chooses InvalidConfiguration (4) at once; no SecretClient is
\* constructed and getSecret is never called.
C6_PlaceholderStopsEarly ==
    (prog \in Brokers /\ pc \notin {"start", "try", "main"} /\ EnvIsPlaceholder) =>
        /\ outcome.code = 4
        /\ ~clientConstructed /\ ~getSecretCalled
        /\ err = NoError
        /\ (prog = "brokerTop" => Exited /\ exitStatus = 4)
        /\ (prog = "brokerMain" => ret = 4)

\* the j-th term of 10, 15, 20, 25, 30, 30, ...
DelayTerm(j) == IF 10 + 5 * (j - 1) > 30 THEN 30 ELSE 10 + 5 * (j - 1)

\* C7: when `az keyvault secret set` fails k < 12 times and then succeeds, the
\* loop reports success after k+1 attempts and k sleeps of 10, 15, 20, 25, 30,
\* 30, ...; nothing is slept before the first attempt and nothing is slept or
\* attempted after the successful one.
C7_SucceedsAfterKFailures ==
    /\ [](prog \in Setups =>
            /\ (attempts = 0 => slept = <<>>)
            /\ (secretCreated =>
                  /\ RETRY_COUNT < 12
                  /\ attempts = RETRY_COUNT + 1
                  /\ Len(slept) = RETRY_COUNT
                  /\ \A j \in 1..Len(slept) : slept[j] = DelayTerm(j)
                  /\ "secret-created" \in printed
                  /\ exhaustWarnings = 0))
    /\ [][secretCreated => (attempts' = attempts /\ slept' = slept)]_vars

C7_Witness ==
    /\ prog \in Setups /\ secretCreated
    /\ RETRY_COUNT = 11 /\ attempts = 12
    /\ slept = <<10, 15, 20, 25, 30, 30, 30, 30, 30, 30, 30>>

\* the retry loop was entered / is running
LoopEntered == prog \in Setups /\ "creating-secret" \in printed
InLoop == prog \in Setups /\ pc \in {"loop", "attempt"}
Exhausted == LoopEntered /\ ~InLoop /\ ~secretCreated

\* C8: when every attempt fails the loop ends after exactly 12 attempts
\* (RETRY_COUNT never exceeds 12), warns once, and the script goes on to the
\* summary, writes keyvault-config.txt and ends with status 0.
C8_ExhaustionIsNotFatal ==
    /\ [](prog \in Setups =>
            /\ RETRY_COUNT <= 12 /\ attempts <= 12 /\ exhaustWarnings <= 1
            /\ (Exhausted => attempts = 12 /\ RETRY_COUNT = 12 /\ exhaustWarnings = 1)
            /\ (Exhausted /\ Exited =>
                    exitStatus = 0 /\ configWritten /\ "summary" \in printed))
    /\ (InLoop ~> ~InLoop)
    /\ (Exhausted ~> (Exited /\ exitStatus = 0 /\ configWritten))

C8_Witness ==
    /\ Exhausted /\ Exited
    /\ attempts = 12 /\ exhaustWarnings = 1
    /\ configWritten /\ exitStatus = 0

\* C9: in the retry loop RETRY_DELAY stays within 10..30, never decreases,
\* grows by exactly 5 with every retry until it is 30 and then stays 30.
C9_DelayWithinBounds ==
    /\ [](LoopEntered => RETRY_DELAY >= 10 /\ RETRY_DELAY <= 30)
    /\ [][LoopEntered =>
            /\ RETRY_DELAY' >= RETRY_DELAY
            /\ (Len(slept') > Len(slept) =>
                    RETRY_DELAY' = IF RETRY_DELAY + 5 <= 30 THEN RETRY_DELAY + 5 ELSE 30)
            /\ (Len(slept') = Len(slept) => RETRY_DELAY' = RETRY_DELAY)]_vars

C9_Witness ==
    /\ LoopEntered
    /\ RETRY_DELAY = 30
    /\ Len(slept) = 11 /\ slept[5] = 30 /\ slept[11] = 30

\* the run failed: something was thrown, or a non-zero outcome code was chosen
RunFailed == err # NoError \/ outcome.code > 0 \/ uncaught

\* C10: in the listing script and both broker variants no run ends with an
\* uncaught exception, and every failing run ends with a non-zero exit status.
C10_FailuresCaughtAndReported ==
    (prog \in {"listing"} \cup Brokers /\ Exited) =>
        /\ ~uncaught
        /\ (RunFailed => exitStatus # 0)

\* the order of the resource-creating calls: the j-th call of a run
CallInOrder(j) ==
    CASE j = 1 -> "group"
      [] j = 2 -> "keyvault"
      [] j = 3 -> "role"
      [] OTHER -> "secret"

\* C11: in every run of either setup script the cloud calls come in the order
\* create resource group, create key vault, assign role, write secret; the
\* first three happen at most once, only the secret write is repeated, and
\* keyvault-config.txt is written only after the retry loop has ended.
C11_CallsInOrder ==
    /\ [](prog \in Setups =>
            /\ \A j \in 1..Len(calls) : calls[j] = CallInOrder(j)
            /\ \A c \in {"group", "keyvault", "role"} :
                   Cardinality({j \in 1..Len(calls) : calls[j] = c}) <= 1
            /\ Cardinality({j \in 1..Len(calls) : calls[j] = "secret"}) = attempts
            /\ (configWritten => ~InLoop /\ Exited))
    /\ [][configWritten => calls' = calls]_vars

C11_Witness ==
    /\ prog \in Setups /\ configWritten
    /\ Len(calls) = 6
    /\ calls = <<"group", "keyvault", "role", "secret", "secret", "secret">>
    /\ secretCreated

\* az role assignment create was run and did not succeed
RoleAssignFailed ==
    /\ Len(calls) >= 3 /\ calls[3] = "role"
    /\ "role-assigned" \notin printed

\* C12: in the first version of the setup script a failed az role assignment
\* create is reported ("Failed to assign role. ...") and the script continues:
\* it enters the retry loop, prints the summary and writes keyvault-config.txt.
C12_RoleFailureContinues ==
    (prog = "setup1" /\ RoleAssignFailed /\ Exited) =>
        /\ "role-failed" \in printed
        /\ LoopEntered
        /\ "summary" \in printed
        /\ configWritten

\* C13: in the second version az keyvault secret set is attempted only when
\* the role assignment succeeded; when it failed there are no attempts and no
\* retry sleeps, the skip warning is printed, and the script still writes
\* keyvault-config.txt and ends with status 0.
C13_SecretOnlyAfterRbac ==
    prog = "setup2" =>
        /\ (attempts > 0 \/ slept # <<>> \/ LoopEntered => RBAC_SUCCESS = "true")
        /\ (RBAC_SUCCESS = "false" =>
              /\ attempts = 0 /\ slept = <<>> /\ ~secretCreated
              /\ "secret" \notin {calls[j] : j \in 1..Len(calls)}
              /\ (pc \in {"summary", "config", "exited"} => "skipping-secret" \in printed)
              /\ pc \in {"gate", "summary", "config", "exited"}
              /\ (Exited => configWritten /\ exitStatus = 0))

C13_Witness ==
    /\ prog = "setup2" /\ RBAC_SUCCESS = "false"
    /\ Exited /\ exitStatus = 0 /\ configWritten
    /\ "skipping-secret" \in printed
    /\ calls = <<"group", "keyvault", "role">>

\* the login check passed / the prompt was answered y or Y
LoginPassed == pc # "start" /\ "not-logged-in" \notin printed
AnsweredYes == REPLY = "y" \/ REPLY = "Y"
Prompted == prog \in Setups /\ pc \notin {"start", "account", "prompt"} /\ "authenticated" \in printed
NothingCreated == calls = <<>> /\ attempts = 0 /\ ~configWritten

\* C14: in both setup scripts no resource-creating call and no write of
\* keyvault-config.txt happens unless the login check passed and the prompt was
\* answered exactly y or Y; any other reply ends the script with status 0 and
\* a failed login check ends it with status 1, before anything is created.
C14_NothingWithoutConsent ==
    prog \in Setups =>
        /\ (~NothingCreated => LoginPassed /\ AnsweredYes)
        /\ (pc \in {"group", "keyvault", "kvshow", "role", "retryinit", "gate", "loop",
                    "attempt", "summary", "config"} => LoginPassed /\ AnsweredYes)
        /\ (Prompted /\ ~stdinEof /\ ~AnsweredYes =>
              Exited /\ exitStatus = 0 /\ NothingCreated /\ "cancelled" \in printed)
        /\ (Prompted /\ stdinEof => Exited /\ NothingCreated /\ REPLY = "")
        /\ ("not-logged-in" \in printed =>
              Exited /\ exitStatus = 1 /\ NothingCreated /\ REPLY = "")

C14_Witness ==
    /\ Prompted /\ ~stdinEof /\ REPLY = "x"
    /\ Exited /\ exitStatus = 0
    /\ NothingCreated

\* total of the delays in a sequence
RECURSIVE SumSeq(_)
SumSeq(q) == IF q = <<>> THEN 0 ELSE Head(q) + SumSeq(Tail(q))

\* C15: when all 12 attempts fail, sleeps happen only between two consecutive
\* attempts: 11 sleeps, none before the first attempt and none after the last
\* one, 10+15+20+25+7*30 = 280 seconds in all, within the stated 6 minutes.
C15_SleepsBetweenAttempts ==
    /\ [](LoopEntered =>
            /\ (pc = "attempt" => Len(slept) = attempts)
            /\ (pc # "attempt" => Len(slept) = IF attempts = 0 THEN 0 ELSE attempts - 1)
            /\ (Exhausted =>
                  /\ attempts = 12 /\ Len(slept) = 11
                  /\ SumSeq(slept) = 280
                  /\ SumSeq(slept) <= 360))
    /\ [][Exhausted => slept' = slept /\ attempts' = attempts]_vars

C15_Witness ==
    /\ Exhausted /\ pc = "summary"
    /\ Len(slept) = 11 /\ slept[1] = 10 /\ slept[11] = 30
    /\ SumSeq(slept) = 280

====
